---- MODULE Spec2Model ----
(***************************************************************************)
(* Model of main.py of Bus-Reports-Exporter: the time codec                *)
(* (convert_time, timedelta_to_time) and the three report stages           *)
(* (generate_duty_times_report, add_stop_names_to_report,                  *)
(* add_breaks_to_report) run in sequence by the main block.                *)
(*                                                                         *)
(* Text is a sequence of one-character strings, so that split, int() and   *)
(* the f-string formatting are computed character by character.            *)
(***************************************************************************)
EXTENDS Integers, Sequences, FiniteSets, TLC

VARIABLES
    day_offset_time,  \* codec: the argument of convert_time
    given,            \* codec: how the argument was built (raw text, or d.hh:mm)
    td,               \* codec: the timedelta convert_time returned
    time_text,        \* codec: the text timedelta_to_time returned
    cpc,              \* codec: position ("input", "parsed", "formatted")
    duties,           \* data['duties']
    vehicles,         \* data['vehicles']
    stops,            \* data['stops']
    report,           \* the DataFrame handed from stage to stage (its rows)
    pc,               \* position in the main block
    raised            \* the exception that ended the run, or "none"

vars == <<day_offset_time, given, td, time_text, cpc,
          duties, vehicles, stops, report, pc, raised>>

codecVars == <<day_offset_time, given, td, time_text, cpc>>
pipeVars == <<duties, vehicles, stops, report, pc, raised>>

-----------------------------------------------------------------------------
(* Bounds of the model *)

MaxTextLen == 5      \* longest raw text handed to convert_time
MaxDay == 2          \* largest small day offset of a d.hh:mm text
MaxHour == 25        \* largest hour component of a d.hh:mm text

\* datetime.timedelta accepts |days| <= 999999999 and raises OverflowError beyond
TimedeltaMaxDays == 999999999

-----------------------------------------------------------------------------
(* Text helpers *)

DigitChars == <<"0", "1", "2", "3", "4", "5", "6", "7", "8", "9">>

IsDigit(c) == \E i \in 1..10 : DigitChars[i] = c

DigitVal(c) == (CHOOSE i \in 1..10 : DigitChars[i] = c) - 1

\* str(n) for n >= 0
RECURSIVE Dec(_)
Dec(n) == IF n < 10 THEN <<DigitChars[n + 1]>>
          ELSE Dec(n \div 10) \o <<DigitChars[(n % 10) + 1]>>

RECURSIVE Zeros(_)
Zeros(k) == IF k <= 0 THEN <<>> ELSE <<"0">> \o Zeros(k - 1)

\* f"{n:0w}" for n >= 0: zero-padded to at least w characters
PadLeft(n, w) == Zeros(w - Len(Dec(n))) \o Dec(n)

\* s.split(sep): the pieces between the separators, one more than separators
RECURSIVE Split(_, _)
Split(s, sep) ==
    IF \A i \in 1..Len(s) : s[i] # sep THEN <<s>>
    ELSE LET k == CHOOSE i \in 1..Len(s) :
                      s[i] = sep /\ \A j \in 1..(i - 1) : s[j] # sep
         IN <<SubSeq(s, 1, k - 1)>> \o Split(SubSeq(s, k + 1, Len(s)), sep)

\* int(s) succeeds on a non-empty run of decimal digits (the model's alphabet
\* holds no sign, blank or underscore)
IsIntLiteral(s) == Len(s) > 0 /\ \A i \in 1..Len(s) : IsDigit(s[i])

RECURSIVE IntValue(_)
IntValue(s) == IF Len(s) = 0 THEN 0
               ELSE 10 * IntValue(SubSeq(s, 1, Len(s) - 1)) + DigitVal(s[Len(s)])

-----------------------------------------------------------------------------
(* The time codec *)

None == <<"None">>    \* a missing / null value (not text: no such character)

ZeroDelta == [days |-> 0, seconds |-> 0]

\* timedelta(days=, hours=, minutes=): normalised to days and 0 <= seconds < 86400
timedelta(days, hours, minutes) ==
    LET secs == hours * 3600 + minutes * 60
    IN [days |-> days + secs \div 86400, seconds |-> secs % 86400]

\* the constructor raises OverflowError when the normalised days are out of range
OverflowError(days, hours, minutes) ==
    timedelta(days, hours, minutes).days > TimedeltaMaxDays

\* variant: a missing or non-integer piece counts as 0
timedelta_skip_parts(t) ==
    LET p == Split(t, ".")
        q == Split(p[Len(p)], ":")
        n(s) == IF IsIntLiteral(s) THEN IntValue(s) ELSE 0
        m == IF Len(q) > 1 THEN n(q[2]) ELSE 0
    IN IF OverflowError(n(p[1]), n(q[1]), m) THEN ZeroDelta
       ELSE timedelta(n(p[1]), n(q[1]), m)

convert_time_lenient(t) ==
    IF t = None THEN ZeroDelta ELSE timedelta_skip_parts(t)

\* convert_time: every exception is caught and answered with timedelta(0)
convert_time(t) ==
    IF t = None THEN ZeroDelta                      \* AttributeError on split
    ELSE LET p == Split(t, ".")
         IN IF Len(p) # 2 THEN ZeroDelta            \* unpack: ValueError
            ELSE LET q == Split(p[2], ":")
                 IN IF Len(q) # 2 THEN ZeroDelta    \* unpack: ValueError
                    ELSE IF ~IsIntLiteral(q[1]) \/ ~IsIntLiteral(q[2])
                            \/ ~IsIntLiteral(p[1])
                         THEN ZeroDelta             \* int(): ValueError
                    ELSE IF OverflowError(IntValue(p[1]), IntValue(q[1]),
                                          IntValue(q[2]))
                         THEN ZeroDelta             \* timedelta(): OverflowError
                    ELSE timedelta(IntValue(p[1]), IntValue(q[1]), IntValue(q[2]))

\* (a - b).total_seconds() / 60 > limit, kept in whole seconds
DeltaSeconds(a, b) == (a.days - b.days) * 86400 + (a.seconds - b.seconds)

\* f"{hours:02}" where hours = days * 24 + h; two limbs of six decimal digits
\* keep days * 24 below 2^31
HoursText(days, h) ==
    LET lo == (days % 1000000) * 24 + h
        hi == (days \div 1000000) * 24 + lo \div 1000000
    IN IF hi = 0 THEN PadLeft(lo, 2)
       ELSE Dec(hi) \o PadLeft(lo % 1000000, 6)

\* variant: td.seconds in place of total_seconds(), the days dropped
timedelta_to_time_minutes_only(t) ==
    HoursText(0, t.seconds \div 3600) \o <<":">>
        \o PadLeft((t.seconds % 3600) \div 60, 2)

\* timedelta_to_time: divmod(total_seconds, 3600), then divmod(remainder, 60);
\* total_seconds = days * 86400 + seconds and 86400 = 24 * 3600
timedelta_to_time(t) ==
    LET hours   == t.seconds \div 3600
        minutes == (t.seconds % 3600) \div 60
    IN HoursText(t.days, hours) \o <<":">> \o PadLeft(minutes, 2)

-----------------------------------------------------------------------------
(* Codec specification: one text is parsed, then formatted *)

Alphabet == {"0", "7", ".", ":", "x"}

RECURSIVE TextsOfLen(_)
TextsOfLen(n) ==
    IF n = 0 THEN {<<>>}
    ELSE {<<c>> \o s : c \in Alphabet, s \in TextsOfLen(n - 1)}

RawTexts == UNION {TextsOfLen(n) : n \in 0..MaxTextLen}

\* f"{d}.{h:02}:{m:02}"
DayHourMinute(d, h, m) ==
    Dec(d) \o <<".">> \o PadLeft(h, 2) \o <<":">> \o PadLeft(m, 2)

DayOffsets == (0..MaxDay) \cup {TimedeltaMaxDays - 1, TimedeltaMaxDays,
                                TimedeltaMaxDays + 1}

Givens ==
    {[kind |-> "raw", text |-> s] : s \in RawTexts \cup {None}}
    \cup {[kind |-> "dhm", d |-> d, h |-> h, m |-> m] :
              d \in DayOffsets, h \in 0..MaxHour, m \in 0..59}

TextOf(g) == IF g.kind = "raw" THEN g.text ELSE DayHourMinute(g.d, g.h, g.m)

NoPipe ==
    /\ duties = <<>> /\ vehicles = <<>> /\ stops = <<>>
    /\ report = <<>> /\ pc = "idle" /\ raised = "none"

CodecInit ==
    /\ given \in Givens
    /\ day_offset_time = TextOf(given)
    /\ td = ZeroDelta
    /\ time_text = None
    /\ cpc = "input"
    /\ NoPipe

ConvertTime ==
    /\ cpc = "input"
    /\ td' = convert_time(day_offset_time)
    /\ cpc' = "parsed"
    /\ UNCHANGED <<day_offset_time, given, time_text>>
    /\ UNCHANGED pipeVars

TimedeltaToTime ==
    /\ cpc = "parsed"
    /\ time_text' = timedelta_to_time(td)
    /\ cpc' = "formatted"
    /\ UNCHANGED <<day_offset_time, given, td>>
    /\ UNCHANGED pipeVars

CodecNext == ConvertTime \/ TimedeltaToTime

CodecSpec == CodecInit /\ [][CodecNext]_vars

-----------------------------------------------------------------------------
(* The input document *)

NoKey == "<no key>"          \* the field is not in the event (duty_id, stop ids)
Null == "<null>"             \* the field is JSON null (duty_id, stop ids)
NoKeyText == <<"<no key>">>  \* the field is not in the event (time texts)

\* the DataFrame's missing value (NaN / pd.NA); a present value v is <<v>>
NA == <<>>

\* event['k'] raises KeyError when the key is absent
HasKey(v) == v # NoKey

HasTextKey(v) == v # NoKeyText

\* event.get('k', default)
Get(v, default) == IF HasKey(v) THEN v ELSE default

GetText(v, default) == IF HasTextKey(v) THEN v ELSE default

Event(d, q, ty, st, en, o, ds) ==
    [duty_id |-> d, vehicle_event_sequence |-> q, vehicle_event_type |-> ty,
     start_time |-> st, end_time |-> en,
     origin_stop_id |-> o, destination_stop_id |-> ds]

\* [event for vehicle in vehicles for event in vehicle['vehicle_events']]
RECURSIVE AllEvents(_)
AllEvents(vs) == IF vs = <<>> THEN <<>> ELSE Head(vs) \o AllEvents(Tail(vs))

RECURSIVE Filter(_, _)
Filter(evs, duty_id) ==
    IF evs = <<>> THEN <<>>
    ELSE (IF Head(evs).duty_id = duty_id THEN <<Head(evs)>> ELSE <<>>)
         \o Filter(Tail(evs), duty_id)

\* the join of the three stages:
\* [event for vehicle in vehicles for event in vehicle['vehicle_events']
\*  if event['duty_id'] == duty_id]
matching_events(vs, duty_id) == Filter(AllEvents(vs), duty_id)

\* the exceptions that end a run
KeyErrorDutyId == "KeyError: 'duty_id'"
KeyErrorTime == "KeyError: 'start_time' / 'end_time'"
KeyErrorColumns == "KeyError: columns not in index"
ValueErrorSequence == "ValueError: int(vehicle_event_sequence)"

\* the join evaluates event['duty_id'] on every event of every vehicle
JoinRaises(vs) == \E i \in 1..Len(AllEvents(vs)) : ~HasKey(AllEvents(vs)[i].duty_id)

-----------------------------------------------------------------------------
(* Step 1: generate_duty_times_report *)

DefaultTime == <<"0", ".", "0", "0", ":", "0", "0">>     \* '0.00:00'

\* key=lambda ev: int(ev['vehicle_event_sequence'])
\* variant: the sequence compared as text (one or two digits)
sort_key_lexical(ev) ==
    LET q == ev.vehicle_event_sequence
    IN DigitVal(q[1]) * 100 + (IF Len(q) > 1 THEN DigitVal(q[2]) + 1 ELSE 0)

sort_key(ev) == IntValue(ev.vehicle_event_sequence)

\* int(ev['vehicle_event_sequence']) raises on a missing or non-integer value
SortRaises(evs) ==
    \E i \in 1..Len(evs) : ~IsIntLiteral(evs[i].vehicle_event_sequence)

\* sorted(): stable, ascending; an event goes after those whose key is <= its own
RECURSIVE InsertSorted(_, _)
InsertSorted(sorted, ev) ==
    IF sorted = <<>> THEN <<ev>>
    ELSE IF sort_key(Head(sorted)) <= sort_key(ev)
         THEN <<Head(sorted)>> \o InsertSorted(Tail(sorted), ev)
         ELSE <<ev>> \o sorted

RECURSIVE SortFrom(_, _)
SortFrom(sorted, evs) ==
    IF evs = <<>> THEN sorted
    ELSE SortFrom(InsertSorted(sorted, Head(evs)), Tail(evs))

sorted_events(evs) == SortFrom(<<>>, evs)

\* variant: both times read from the start event's start_time
duty_times_row_start_only(duty_id, evs) ==
    LET start_event == sorted_events(evs)[1]
        t == timedelta_to_time(convert_time(GetText(start_event.start_time, DefaultTime)))
    IN ("Duty ID" :> duty_id) @@ ("Start time" :> t) @@ ("End time" :> t)

\* lines 47-60: the row of a duty with matching events
duty_times_row(duty_id, evs) ==
    LET sorted      == sorted_events(evs)
        start_event == sorted[1]
        end_event   == sorted[Len(sorted)]
        start_time  == convert_time(GetText(start_event.start_time, DefaultTime))
        end_time    == convert_time(GetText(end_event.end_time, DefaultTime))
    IN ("Duty ID" :> duty_id)
       @@ ("Start time" :> timedelta_to_time(start_time))
       @@ ("End time" :> timedelta_to_time(end_time))

\* variant: a duty without events keeps a row
RECURSIVE generate_duty_times_report_keep_empty(_, _)
generate_duty_times_report_keep_empty(ds, vs) ==
    IF ds = <<>> THEN <<>>
    ELSE LET duty_id == Head(ds).duty_id
             evs     == matching_events(vs, duty_id)
         IN (IF evs # <<>> THEN <<duty_times_row(duty_id, evs)>>
             ELSE <<("Duty ID" :> duty_id) @@ ("Start time" :> <<"0", "0", ":", "0", "0">>)
                     @@ ("End time" :> <<"0", "0", ":", "0", "0">>)>>)
            \o generate_duty_times_report_keep_empty(Tail(ds), vs)

\* the rows of the DataFrame generate_duty_times_report returns
RECURSIVE generate_duty_times_report(_, _)
generate_duty_times_report(ds, vs) ==
    IF ds = <<>> THEN <<>>
    ELSE LET duty_id == Head(ds).duty_id
             evs     == matching_events(vs, duty_id)
         IN (IF evs # <<>> THEN <<duty_times_row(duty_id, evs)>> ELSE <<>>)
            \o generate_duty_times_report(Tail(ds), vs)

\* the exception generate_duty_times_report ends with, or "none"
Step1Exception(ds, vs) ==
    IF ds = <<>> THEN "none"
    ELSE IF JoinRaises(vs) THEN KeyErrorDutyId
    ELSE IF \E i \in 1..Len(ds) : SortRaises(matching_events(vs, ds[i].duty_id))
         THEN ValueErrorSequence
    ELSE "none"

\* report.columns: a DataFrame built from no rows has no columns
Columns(df) == IF df = <<>> THEN {} ELSE DOMAIN df[1]

-----------------------------------------------------------------------------
(* Step 2: add_stop_names_to_report *)

\* stop_map.get(key, 'Unknown') for stop_map = {stop_id: stop_name for stop in stops}
\* (a later stop with the same id replaces an earlier one)
stop_map_get(ss, key) ==
    IF \E i \in 1..Len(ss) : ss[i].stop_id = key
    THEN LET k == CHOOSE i \in 1..Len(ss) :
                      /\ ss[i].stop_id = key
                      /\ \A j \in (i + 1)..Len(ss) : ss[j].stop_id # key
         IN ss[k].stop_name
    ELSE "Unknown"

\* stop_map.get(event.get(field, 'Unknown'), 'Unknown')
stop_name(ss, id) == stop_map_get(ss, Get(id, "Unknown"))

\* lines 78-97: one row of the loop
stop_names_row(row, vs, ss) ==
    LET duty_events == matching_events(vs, row["Duty ID"])
    IN IF duty_events # <<>>
       THEN LET start_event == duty_events[1]
                end_event   == duty_events[Len(duty_events)]
            IN row @@ ("First service trip start stop" :>
                           <<stop_name(ss, start_event.origin_stop_id)>>)
                   @@ ("Last service trip end stop" :>
                           <<stop_name(ss, end_event.destination_stop_id)>>)
       ELSE row @@ ("First service trip start stop" :> NA)
                @@ ("Last service trip end stop" :> NA)

add_stop_names_to_report(df, vs, ss) ==
    IF "Duty ID" \notin Columns(df) THEN df
    ELSE [i \in 1..Len(df) |-> stop_names_row(df[i], vs, ss)]

Step2Exception(df, vs) ==
    IF "Duty ID" \in Columns(df) /\ JoinRaises(vs) THEN KeyErrorDutyId ELSE "none"

-----------------------------------------------------------------------------
(* Step 3: add_breaks_to_report *)

BreakLimit == 15      \* if break_duration > 15

\* line 127
is_break_pair(start_event, end_event) ==
    /\ start_event.vehicle_event_type = "Break"
    /\ end_event.vehicle_event_type = "Break End"

\* line 128, in minutes; convert_time builds whole minutes only, so the
\* division by 60 is exact
break_duration(start_event, end_event) ==
    DeltaSeconds(convert_time(end_event.start_time),
                 convert_time(start_event.end_time)) \div 60

\* variant: >= in place of >
keeps_break_inclusive(start_event, end_event) ==
    break_duration(start_event, end_event) >= BreakLimit

\* line 131
keeps_break(start_event, end_event) ==
    break_duration(start_event, end_event) > BreakLimit

\* lines 132-137
break_record(duty_id, start_event, end_event, ss) ==
    ("Duty ID" :> duty_id)
    @@ ("Break duration (minutes)" :> <<break_duration(start_event, end_event)>>)
    @@ ("Break start time" :>
            <<timedelta_to_time(convert_time(start_event.start_time))>>)
    @@ ("Break stop name" :> <<stop_name(ss, start_event.origin_stop_id)>>)

\* lines 122-137: the loop over range(len(duty_events) - 1), from index i on
RECURSIVE breaks_of_events(_, _, _, _)
breaks_of_events(duty_id, duty_events, i, ss) ==
    IF i > Len(duty_events) - 1 THEN <<>>
    ELSE LET start_event == duty_events[i]
             end_event   == duty_events[i + 1]
         IN (IF is_break_pair(start_event, end_event)
                /\ keeps_break(start_event, end_event)
             THEN <<break_record(duty_id, start_event, end_event, ss)>>
             ELSE <<>>)
            \o breaks_of_events(duty_id, duty_events, i + 1, ss)

\* lines 112-137: breaks_data after the loop over the report's rows, from row r on
RECURSIVE breaks_data(_, _, _, _)
breaks_data(df, r, vs, ss) ==
    IF r > Len(df) THEN <<>>
    ELSE LET duty_id == df[r]["Duty ID"]
         IN breaks_of_events(duty_id, matching_events(vs, duty_id), 1, ss)
            \o breaks_data(df, r + 1, vs, ss)

NoBreak ==
    ("Break duration (minutes)" :> NA) @@ ("Break start time" :> NA)
    @@ ("Break stop name" :> NA)

\* variant: one row per left row, with its first match
RECURSIVE merge_first_match(_, _)
merge_first_match(left, right) ==
    IF left = <<>> THEN <<>>
    ELSE LET row == Head(left)
             hit == SelectSeq(right, LAMBDA b : b["Duty ID"] = row["Duty ID"])
         IN (IF hit = <<>> THEN <<row @@ NoBreak>> ELSE <<row @@ hit[1]>>)
            \o merge_first_match(Tail(left), right)

\* variant: the left row is kept beside its matches
RECURSIVE merge_always_blank(_, _)
merge_always_blank(left, right) ==
    IF left = <<>> THEN <<>>
    ELSE LET row == Head(left)
             hit == SelectSeq(right, LAMBDA b : b["Duty ID"] = row["Duty ID"])
         IN <<row @@ NoBreak>> \o [j \in 1..Len(hit) |-> row @@ hit[j]]
            \o merge_always_blank(Tail(left), right)

\* pd.merge(report, breaks_df, on='Duty ID', how='left'): the left rows in order,
\* each once per right row with an equal key, or once with missing values
RECURSIVE merge(_, _)
merge(left, right) ==
    IF left = <<>> THEN <<>>
    ELSE LET row == Head(left)
             hit == SelectSeq(right, LAMBDA b : b["Duty ID"] = row["Duty ID"])
         IN (IF hit = <<>> THEN <<row @@ NoBreak>>
             ELSE [j \in 1..Len(hit) |-> row @@ hit[j]])
            \o merge(Tail(left), right)

\* breaks_df.empty gives the right frame its four columns and no row; the left
\* join then adds the columns with missing values, as merge does for no match
add_breaks_to_report(df, vs, ss) ==
    IF "Duty ID" \notin Columns(df) THEN df
    ELSE merge(df, breaks_data(df, 1, vs, ss))

\* event['start_time'] / event['end_time'] (lines 128, 135) raise KeyError
PairRaises(duty_events) ==
    \E i \in 1..(Len(duty_events) - 1) :
        /\ is_break_pair(duty_events[i], duty_events[i + 1])
        /\ \/ ~HasTextKey(duty_events[i + 1].start_time)
           \/ ~HasTextKey(duty_events[i].end_time)
           \/ /\ keeps_break(duty_events[i], duty_events[i + 1])
              /\ ~HasTextKey(duty_events[i].start_time)

Step3Exception(df, vs) ==
    IF "Duty ID" \notin Columns(df) THEN "none"
    ELSE IF JoinRaises(vs) THEN KeyErrorDutyId
    ELSE IF \E r \in 1..Len(df) : PairRaises(matching_events(vs, df[r]["Duty ID"]))
         THEN KeyErrorTime
    ELSE "none"

-----------------------------------------------------------------------------
(* The main block *)

FinalColumns ==
    {"Duty ID", "Start time", "End time",
     "First service trip start stop", "Last service trip end stop",
     "Break duration (minutes)", "Break start time", "Break stop name"}

\* line 163
GenerateDutyTimesReport ==
    /\ pc = "step1"
    /\ LET e == Step1Exception(duties, vehicles)
       IN IF e # "none"
          THEN /\ raised' = e
               /\ pc' = "failed"
               /\ UNCHANGED report
          ELSE /\ report' = generate_duty_times_report(duties, vehicles)
               /\ pc' = "step2"
               /\ UNCHANGED raised
    /\ UNCHANGED <<duties, vehicles, stops>>
    /\ UNCHANGED codecVars

\* line 169
AddStopNamesToReport ==
    /\ pc = "step2"
    /\ LET e == Step2Exception(report, vehicles)
       IN IF e # "none"
          THEN /\ raised' = e
               /\ pc' = "failed"
               /\ UNCHANGED report
          ELSE /\ report' = add_stop_names_to_report(report, vehicles, stops)
               /\ pc' = "step3"
               /\ UNCHANGED raised
    /\ UNCHANGED <<duties, vehicles, stops>>
    /\ UNCHANGED codecVars

\* line 175
AddBreaksToReport ==
    /\ pc = "step3"
    /\ LET e == Step3Exception(report, vehicles)
       IN IF e # "none"
          THEN /\ raised' = e
               /\ pc' = "failed"
               /\ UNCHANGED report
          ELSE /\ report' = add_breaks_to_report(report, vehicles, stops)
               /\ pc' = "final"
               /\ UNCHANGED raised
    /\ UNCHANGED <<duties, vehicles, stops>>
    /\ UNCHANGED codecVars

\* lines 181-184: break_report[[the eight columns]] raises KeyError on a frame
\* without them (the frame built from no rows)
FinalReport ==
    /\ pc = "final"
    /\ IF FinalColumns \subseteq Columns(report)
       THEN /\ pc' = "done"
            /\ UNCHANGED raised
       ELSE /\ raised' = KeyErrorColumns
            /\ pc' = "failed"
    /\ UNCHANGED <<duties, vehicles, stops, report>>
    /\ UNCHANGED codecVars

Next == GenerateDutyTimesReport \/ AddStopNamesToReport \/ AddBreaksToReport
        \/ FinalReport

-----------------------------------------------------------------------------
(* Input documents *)

MaxEvents == 4       \* most vehicle events in the document
MaxDuties == 2       \* most duties in the document

HM(d, h, m) == DayHourMinute(d, h, m)

DutyIds == {"D1", "D2"}

DutyLists == UNION {[1..k -> {[duty_id |-> d] : d \in DutyIds}] : k \in 0..MaxDuties}

Stop(id, name) == [stop_id |-> id, stop_name |-> name]

PlainStops == <<Stop("S1", "Alpha"), Stop("S2", "Beta")>>

\* trips of two duties (one without an end_time), an event whose duty_id is
\* null and one without the field
JoinPool ==
    {Event("D1", <<"9">>, "Trip", HM(0, 9, 0), HM(0, 9, 30), "S1", "S2"),
     Event("D1", <<"1", "0">>, "Trip", HM(0, 10, 0), HM(0, 10, 30), "S2", "S1"),
     Event("D2", <<"2">>, "Trip", HM(1, 2, 0), NoKeyText, "S1", "S1"),
     Event(Null, <<"1">>, "Trip", HM(0, 1, 0), HM(0, 1, 30), "S1", "S2"),
     Event(NoKey, <<"3">>, "Trip", HM(0, 3, 0), HM(0, 3, 30), "S1", "S2")}

EventLists(pool) == UNION {[1..k -> pool] : k \in 0..MaxEvents}

\* the document's events on two vehicles, or a document without vehicles
VehicleLists(evs) ==
    {<<SubSeq(evs, 1, k), SubSeq(evs, k + 1, Len(evs))>> : k \in 0..Len(evs)}
    \cup (IF evs = <<>> THEN {<<>>} ELSE {})

NoCodec ==
    /\ given = [kind |-> "raw", text |-> None]
    /\ day_offset_time = None /\ td = ZeroDelta /\ time_text = None
    /\ cpc = "idle"

\* the state after load_json and the three extractions (lines 155-160)
Loaded(pool, stopLists) ==
    /\ duties \in DutyLists
    /\ \E evs \in EventLists(pool) : vehicles \in VehicleLists(evs)
    /\ stops \in stopLists
    /\ report = <<>>
    /\ pc = "step1"
    /\ raised = "none"
    /\ NoCodec

Init == Loaded(JoinPool, {PlainStops})

Spec == Init /\ [][Next]_vars


\* one duty's break events around the 15 minute limit, a break end whose start
\* time is no time text, and an event of a second duty
BreakPool ==
    {Event("D1", <<"2">>, "Break", HM(0, 9, 50), HM(0, 10, 0), "S2", "S2"),
     Event("D1", <<"3">>, "Break End", HM(0, 10, 15), HM(0, 10, 15), "S2", "S2"),
     Event("D1", <<"3">>, "Break End", HM(0, 10, 16), HM(0, 10, 16), "ZZZ", "S2"),
     Event("D1", <<"3">>, "Break End", <<"x">>, NoKeyText, "S2", "S2"),
     Event("D2", <<"1">>, "Break End", HM(0, 11, 0), HM(0, 11, 0), "S1", "S1")}

BreakInit == Loaded(BreakPool, {PlainStops})

BreakSpec == BreakInit /\ [][Next]_vars

\* trips whose stop ids are mapped, unmapped, null or absent, listed out of
\* sequence order
StopPool ==
    {Event("D1", <<"2">>, "Trip", HM(0, 2, 0), HM(0, 2, 30), "S1", "S2"),
     Event("D1", <<"1">>, "Trip", HM(0, 1, 0), HM(0, 1, 30), "ZZZ", NoKey),
     Event("D1", <<"3">>, "Trip", HM(0, 3, 0), HM(0, 3, 30), NoKey, "S1"),
     Event("D2", <<"1">>, "Trip", HM(0, 4, 0), HM(0, 4, 30), Null, "ZZZ")}

\* a later stop repeating an id, and a stop whose id is the text 'Unknown'
StopLists ==
    {PlainStops,
     PlainStops \o <<Stop("S1", "Gamma")>>,
     PlainStops \o <<Stop("Unknown", "Depot")>>}

StopInit == Loaded(StopPool, StopLists)

StopSpec == StopInit /\ [][Next]_vars


-----------------------------------------------------------------------------
(* Claims about the time codec, checked under CodecSpec *)

ZeroText == <<"0", "0", ":", "0", "0">>      \* "00:00"

\* decimal text of IntValue(s) * k + c, digit by digit from the right
RECURSIVE TimesPlus(_, _, _)
TimesPlus(s, k, c) ==
    IF Len(s) = 0 THEN (IF c = 0 THEN <<>> ELSE Dec(c))
    ELSE LET v == DigitVal(s[Len(s)]) * k + c
         IN TimesPlus(SubSeq(s, 1, Len(s) - 1), k, v \div 10)
            \o <<DigitChars[(v % 10) + 1]>>

RECURSIVE StripZeros(_)
StripZeros(s) == IF Len(s) > 1 /\ s[1] = "0" THEN StripZeros(Tail(s)) ELSE s

\* f"{(d*24+h):02}:{m:02}"
ExpectedText(d, h, m) ==
    LET hours == StripZeros(TimesPlus(Dec(d), 24, h))
    IN Zeros(2 - Len(hours)) \o hours \o <<":">> \o PadLeft(m, 2)

\* the duration d days + h hours + m minutes (m < 60) is one timedelta can hold
InTimedeltaRange(d, h) == d + h \div 24 <= TimedeltaMaxDays

\* C8 as stated: for all non-negative d, h and m in 0..59, formatting the parse
\* of "d.hh:mm" gives the total hours d*24+h (at least two digits, never wrapped
\* at 24), a colon, and the two-digit minutes.
C8_AllDayOffsets ==
    (cpc = "formatted" /\ given.kind = "dhm")
        => time_text = ExpectedText(given.d, given.h, given.m)

\* C8 amended: the same holds for every d, h with d + h div 24 <= 999999999, the
\* largest day count of a timedelta; beyond it convert_time answers the
\* OverflowError with a zero duration and the text is "00:00".
C8_TotalHoursInRange ==
    (cpc = "formatted" /\ given.kind = "dhm")
        => IF InTimedeltaRange(given.d, given.h)
           THEN time_text = ExpectedText(given.d, given.h, given.m)
           ELSE time_text = ZeroText

\* "2.25:07" has been parsed and formatted as "73:07"
C8_Witness ==
    /\ cpc = "formatted" /\ given.kind = "dhm"
    /\ given.d = 2 /\ given.h = 25 /\ given.m = 7
    /\ time_text = <<"7", "3", ":", "0", "7">>

\* the text is <digits>.<digits>:<digits>
WellFormed(t) ==
    /\ t # None
    /\ \E i, j \in 1..Len(t) :
        /\ 1 < i /\ i + 1 < j /\ j < Len(t)
        /\ t[i] = "." /\ t[j] = ":"
        /\ \A k \in (1..Len(t)) \ {i, j} : IsDigit(t[k])

\* C9: convert_time returns to its caller on every input, and on a malformed one
\* (wrong number of '.' or ':' separators, a non-integer component, no text at
\* all) it returns the zero duration, which the caller formats as "00:00".
C9_MalformedIsZero ==
    (given.kind = "raw" /\ ~WellFormed(day_offset_time))
        => /\ cpc = "input" => ENABLED ConvertTime
           /\ cpc \in {"parsed", "formatted"} => td = ZeroDelta
           /\ cpc = "formatted" => time_text = ZeroText

\* "7:7:7" has been parsed and formatted as "00:00"
C9_Witness ==
    /\ cpc = "formatted"
    /\ day_offset_time = <<"7", ":", "7", ":", "7">>
    /\ td = ZeroDelta
    /\ time_text = ZeroText


-----------------------------------------------------------------------------
(* Claims about generate_duty_times_report, checked under Spec *)

\* the events of the document, in no order
EventSet == UNION {{vehicles[v][k] : k \in DOMAIN vehicles[v]} : v \in DOMAIN vehicles}

EventsOf(duty_id) == {e \in EventSet : e.duty_id = duty_id}

\* how many events of the document carry this duty_id
EventCount(duty_id) ==
    Cardinality(UNION {{<<v, k>> : k \in {k \in DOMAIN vehicles[v] :
                                            vehicles[v][k].duty_id = duty_id}} :
                       v \in DOMAIN vehicles})

DutyIdsOf(df) == [i \in 1..Len(df) |-> df[i]["Duty ID"]]

Format(t) == timedelta_to_time(convert_time(t))

\* C2: generate_duty_times_report returns one row for each duty with at least
\* one event carrying its duty_id, none for a duty without such an event, in the
\* order of the duties.
C2_OneRowPerMatchedDuty ==
    pc = "step2" =>
        DutyIdsOf(report) =
            SelectSeq([i \in 1..Len(duties) |-> duties[i].duty_id],
                      LAMBDA d : EventsOf(d) # {})

\* duties D2, D1 of which only D1 has events: one row, D1's
C2_Witness ==
    /\ pc = "step2"
    /\ duties = <<[duty_id |-> "D2"], [duty_id |-> "D1"]>>
    /\ EventsOf("D2") = {} /\ EventsOf("D1") # {}
    /\ DutyIdsOf(report) = <<"D1">>

\* C3: in every row, Start time is the formatted start_time of a matching event
\* whose vehicle_event_sequence is numerically smallest, and End time the
\* formatted end_time of one whose sequence is numerically largest, whatever the
\* order of the events in the vehicles.
C3_WindowBySequence ==
    pc = "step2" =>
        \A i \in 1..Len(report) :
            LET evs == EventsOf(report[i]["Duty ID"])
                seq(e) == IntValue(e.vehicle_event_sequence)
            IN /\ \E e \in evs :
                    /\ \A o \in evs : seq(e) <= seq(o)
                    /\ report[i]["Start time"] = Format(GetText(e.start_time, DefaultTime))
               /\ \E e \in evs :
                    /\ \A o \in evs : seq(o) <= seq(e)
                    /\ report[i]["End time"] = Format(GetText(e.end_time, DefaultTime))

\* D1's event with sequence 10 precedes its event with sequence 9 in the
\* document; the row runs from 09:00 (sequence 9) to 10:30 (sequence 10)
C3_Witness ==
    /\ pc = "step2"
    /\ Len(AllEvents(vehicles)) = 2
    /\ AllEvents(vehicles)[1].duty_id = "D1"
    /\ AllEvents(vehicles)[1].vehicle_event_sequence = <<"1", "0">>
    /\ AllEvents(vehicles)[2].duty_id = "D1"
    /\ AllEvents(vehicles)[2].vehicle_event_sequence = <<"9">>
    /\ Len(report) = 1
    /\ report[1]["Start time"] = <<"0", "9", ":", "0", "0">>
    /\ report[1]["End time"] = <<"1", "0", ":", "3", "0">>

\* C5 as stated: a duty with exactly one matching event has Start time equal to
\* End time.
C5_SingleEventEqualTimes ==
    pc = "step2" =>
        \A i \in 1..Len(report) :
            EventCount(report[i]["Duty ID"]) = 1
                => report[i]["Start time"] = report[i]["End time"]

\* C5 amended: a duty with exactly one matching event has the formatted
\* start_time of that event as Start time and the formatted end_time of that same
\* event as End time (equal only when the two format alike).
C5_SingleEventBothTimes ==
    pc = "step2" =>
        \A i \in 1..Len(report) :
            EventCount(report[i]["Duty ID"]) = 1
                => \E e \in EventsOf(report[i]["Duty ID"]) :
                    /\ report[i]["Start time"] = Format(GetText(e.start_time, DefaultTime))
                    /\ report[i]["End time"] = Format(GetText(e.end_time, DefaultTime))

\* D1's only event starts at 0.09:00 and ends at 0.09:30
C5_Witness ==
    /\ pc = "step2"
    /\ EventCount("D1") = 1
    /\ \E i \in 1..Len(report) :
        /\ report[i]["Duty ID"] = "D1"
        /\ report[i]["Start time"] = <<"0", "9", ":", "0", "0">>
        /\ report[i]["End time"] = <<"0", "9", ":", "3", "0">>

\* the event's duty_id is absent (no field, or null) or equals no duty's duty_id
StrayEvent(e) ==
    \/ e.duty_id \in {NoKey, Null}
    \/ \A i \in 1..Len(duties) : duties[i].duty_id # e.duty_id

\* the join has not raised, and once step 1 is over every duty with an event
\* has its row
SkippedQuietly ==
    /\ raised # KeyErrorDutyId
    /\ pc # "step1" =>
         \A i \in 1..Len(duties) :
             EventsOf(duties[i].duty_id) # {}
                 => \E r \in 1..Len(report) :
                        report[r]["Duty ID"] = duties[i].duty_id

\* C7: an event whose duty_id is absent (no field, or null) or equals no duty's
\* duty_id is left out of every duty's events without an error: the join does
\* not raise, and the rows of the other duties are produced.
C7_UnmatchedEventsSkipped ==
    (\E e \in EventSet : StrayEvent(e)) => SkippedQuietly

\* C7 for the events whose duty_id is null or equals no duty's duty_id, in a
\* document where every event has the field (supporting check)
C7_NullOrUnmatchedSkipped ==
    ((\E e \in EventSet : StrayEvent(e)) /\ (\A e \in EventSet : e.duty_id # NoKey))
        => SkippedQuietly

-----------------------------------------------------------------------------
(* Claims about add_breaks_to_report and the whole run, checked under BreakSpec *)

UniqueDutyIds ==
    \A i, j \in 1..Len(duties) : i # j => duties[i].duty_id # duties[j].duty_id

\* parse(t) in minutes
Minutes(t) == LET x == convert_time(t) IN x.days * 1440 + x.seconds \div 60

\* the positions i where a duty's events i, i+1 are a Break and a Break End
BreakPairs(duty_id) ==
    LET evs == matching_events(vehicles, duty_id)
    IN {i \in 1..(Len(evs) - 1) : /\ evs[i].vehicle_event_type = "Break"
                                  /\ evs[i + 1].vehicle_event_type = "Break End"}

\* parse(events[i+1].start_time) - parse(events[i].end_time), in minutes
PairMinutes(duty_id, i) ==
    LET evs == matching_events(vehicles, duty_id)
    IN Minutes(evs[i + 1].start_time) - Minutes(evs[i].end_time)

KeptBreaks(duty_id) == {i \in BreakPairs(duty_id) : PairMinutes(duty_id, i) > 15}

RowsOf(duty_id) == {r \in 1..Len(report) : report[r]["Duty ID"] = duty_id}

BreakFieldsNull(row) ==
    /\ row["Break duration (minutes)"] = NA
    /\ row["Break start time"] = NA
    /\ row["Break stop name"] = NA

\* C1: after the three stages, with unique duty_ids, a duty with matching
\* events and K kept breaks has K rows when K >= 1, and one row with its three
\* break fields null when K = 0.
C1_RowsPerDuty ==
    (pc \in {"final", "done"} /\ UniqueDutyIds) =>
        \A i \in 1..Len(duties) :
            LET d == duties[i].duty_id
                K == Cardinality(KeptBreaks(d))
            IN EventsOf(d) # {} =>
                IF K >= 1 THEN Cardinality(RowsOf(d)) = K
                ELSE /\ Cardinality(RowsOf(d)) = 1
                     /\ \A r \in RowsOf(d) : BreakFieldsNull(report[r])

\* D1 has two kept breaks and the final report holds two rows for it, each
\* carrying a break
C1_Witness ==
    /\ pc = "done" /\ UniqueDutyIds
    /\ Cardinality(KeptBreaks("D1")) = 2
    /\ Cardinality(RowsOf("D1")) = 2
    /\ \A r \in RowsOf("D1") : report[r]["Break duration (minutes)"] = <<16>>

\* C4: a Break / Break End pair of consecutive events of a duty is in the
\* output exactly when its duration is strictly more than 15 minutes; no row
\* carries a break of 15 minutes or less.
C4_KeptIffOver15 ==
    pc = "final" =>
        /\ \A r \in 1..Len(report) :
              \A i \in BreakPairs(report[r]["Duty ID"]) :
                  LET d   == report[r]["Duty ID"]
                      evs == matching_events(vehicles, d)
                  IN (PairMinutes(d, i) > 15)
                     <=> \E q \in RowsOf(d) :
                            /\ report[q]["Break duration (minutes)"] = <<PairMinutes(d, i)>>
                            /\ report[q]["Break start time"] = <<Format(evs[i].start_time)>>
        /\ \A r \in 1..Len(report) :
              report[r]["Break duration (minutes)"] # NA
                  => report[r]["Break duration (minutes)"][1] > 15

\* a break of exactly 15 minutes was scanned and the duty's one row has no break
C4_Witness ==
    /\ pc = "final" /\ Len(report) = 1
    /\ \E i \in BreakPairs(report[1]["Duty ID"]) : PairMinutes(report[1]["Duty ID"], i) = 15
    /\ KeptBreaks(report[1]["Duty ID"]) = {}
    /\ BreakFieldsNull(report[1])

\* one duty, its events on one vehicle, one Break / Break End pair among them
OneBreakScenario ==
    /\ Len(duties) = 1
    /\ \E v \in DOMAIN vehicles :
          Len(matching_events(<<vehicles[v]>>, duties[1].duty_id)) = EventCount(duties[1].duty_id)
    /\ Cardinality(BreakPairs(duties[1].duty_id)) = 1

TheBreakMinutes ==
    PairMinutes(duties[1].duty_id, CHOOSE i \in BreakPairs(duties[1].duty_id) : TRUE)

NonBreakColumns ==
    {"Duty ID", "Start time", "End time",
     "First service trip start stop", "Last service trip end stop"}

\* C6 as stated: in that scenario the final report has one row when the break
\* lasts 15 minutes or less and two rows, equal in the non-break columns, when
\* it lasts more than 15 minutes.
C6_TwoRowsForKeptBreak ==
    (pc = "done" /\ OneBreakScenario) =>
        IF TheBreakMinutes <= 15 THEN Len(report) = 1
        ELSE /\ Len(report) = 2
             /\ \A c \in NonBreakColumns : report[1][c] = report[2][c]

\* C6 amended: in that scenario the final report has exactly one row in both
\* cases; its break fields are null when the break lasts 15 minutes or less and
\* hold the break (its duration) when it lasts more than 15 minutes.
C6_OneRowEitherWay ==
    (pc = "done" /\ OneBreakScenario) =>
        /\ Len(report) = 1
        /\ IF TheBreakMinutes <= 15 THEN BreakFieldsNull(report[1])
           ELSE report[1]["Break duration (minutes)"] = <<TheBreakMinutes>>

\* the one break lasts 16 minutes and the final report is one row carrying it
C6_Witness ==
    /\ pc = "done" /\ OneBreakScenario
    /\ TheBreakMinutes = 16
    /\ Len(report) = 1
    /\ report[1]["Break duration (minutes)"] = <<16>>

-----------------------------------------------------------------------------
(* Claims about add_stop_names_to_report, checked under StopSpec *)

\* the name the stops give an id; "Unknown" for an absent, null or unmapped id
NameOf(id) ==
    IF id \in {NoKey, Null} \/ \A i \in 1..Len(stops) : stops[i].stop_id # id
    THEN "Unknown"
    ELSE stops[CHOOSE i \in 1..Len(stops) :
                   /\ stops[i].stop_id = id
                   /\ \A j \in (i + 1)..Len(stops) : stops[j].stop_id # id].stop_name

StopsAsClaimed ==
    /\ DutyIdsOf(report) = DutyIdsOf(generate_duty_times_report(duties, vehicles))
    /\ \A r \in 1..Len(report) :
          LET evs == matching_events(vehicles, report[r]["Duty ID"])
          IN /\ report[r]["First service trip start stop"] = <<NameOf(evs[1].origin_stop_id)>>
             /\ report[r]["Last service trip end stop"]
                    = <<NameOf(evs[Len(evs)].destination_stop_id)>>

\* C10: every row gets the stop name of the origin of the duty's first event and
\* of the destination of its last event, in document order, "Unknown" whenever
\* the id is absent or not in stops; rows and their order are unchanged.
C10_StopsOfFirstAndLast ==
    pc = "step3" => StopsAsClaimed

\* C10 where no stop has the id 'Unknown' (supporting check)
C10_WithoutUnknownStopId ==
    (pc = "step3" /\ \A i \in 1..Len(stops) : stops[i].stop_id # "Unknown")
        => StopsAsClaimed

====
